---- MODULE Spec2Model ----
(***************************************************************************)
(* A state-machine model of routes.py (lenuvia/capstone1): the Flask       *)
(* request handlers over the session, the three tables (User,              *)
(* User_Activity, Ignored_Activity) and the bounded retry loop of          *)
(* get_searched_activity against the external recommendation service.      *)
(*                                                                         *)
(* One action is one request (the before_request hook add_user_to_g, the   *)
(* handler and its commit).  The search handler blocks on up to 21 HTTP    *)
(* exchanges with the external service; each exchange is one step.         *)
(***************************************************************************)
EXTENDS Integers, Sequences, FiniteSets, TLC

VARIABLES
    users,        \* User table: id -> [username, email, password]
    userSeq,      \* last id the User table's serial handed out
    saved,        \* User_Activity table: id -> [form, user_id, isCompleted, timestamp]
    savedSeq,     \* last id of User_Activity
    ignored,      \* Ignored_Activity table: id -> [title, key, user_id]
    ignoredSeq,   \* last id of Ignored_Activity
    session,      \* the Flask session: the value under CURR_USER_KEY, NoUser when the key is absent
    now,          \* the last value datetime.utcnow() gave, in ticks
    resp,         \* the last request and the response it got
    spc,          \* get_searched_activity: where the handler is
    sform,        \* get_searched_activity: the submitted ActivitySearchCriteria
    squery,       \* get_searched_activity: the last upstream query sent
    sprices,      \* get_searched_activity: the maxprice values sent so far
    nqueries,     \* get_searched_activity: upstream queries sent so far
    x,            \* get_searched_activity: iterations of the retry loop finished
    sresponses,   \* get_searched_activity: the upstream response bodies parsed so far
    sresult,      \* get_searched_activity: what the handler returned
    clients       \* browsers with a signup request in flight: client -> [pc, form, session, status, flash]

webvars == <<users, userSeq, saved, savedSeq, ignored, ignoredSeq, session, now, resp>>
searchvars == <<spc, sform, squery, sprices, nqueries, x, sresponses, sresult>>
racevars == <<clients>>
vars == <<users, userSeq, saved, savedSeq, ignored, ignoredSeq, session, now, resp,
          spc, sform, squery, sprices, nqueries, x, sresponses, sresult, clients>>

----------------------------------------------------------------------------
(* Bounds of the model *)

\* signups that may succeed
MaxUsers == 2
\* User_Activity rows that may be inserted
MaxSaved == 2
\* Ignored_Activity rows that may be inserted
MaxIgnored == 2
\* ticks of the clock
MaxTime == 2
\* browsers that send a signup request at the same time
MaxClients == 3

----------------------------------------------------------------------------
(* Program constants *)

\* .limit(30) of the three listings
PageLimit == 30

\* session has no CURR_USER_KEY; also Python's None for a user or an id
NoUser == 0

Usernames == {"alice", "bob"}
Passwords == {"pwA", "pwB"}
Emails == {"a@x", "b@x"}

\* The SavedActivityForm / IgnoreActivityForm payloads a browser posts.
ActivityForms ==
    {[title |-> "Go to the park", type |-> "recreational", participants |-> 2,
      price |-> 0, key |-> "abc123"]}

----------------------------------------------------------------------------
(* The models' side of the repository (models.py, not among the source    *)
(* files): what the handlers call on User and on the store.                *)

\* bcrypt.generate_password_hash: the stored value is not the password.
Hash(password) == <<"bcrypt", password>>

\* bcrypt.check_password_hash
CheckPasswordHash(hash, password) == hash = Hash(password)

\* User.signup: the new User object, its password hashed.
UserSignup(username, password, email) ==
    [username |-> username, email |-> email, password |-> Hash(password)]

\* User.query.filter_by(username=username).first(), NoUser when there is none.
UserByName(username) ==
    IF \E u \in DOMAIN users : users[u].username = username
    THEN CHOOSE u \in DOMAIN users : users[u].username = username
    ELSE NoUser

\* User.authenticate: the user, or False (NoUser) when the username is
\* unknown or the password does not match its hash.
Authenticate(username, password) ==
    LET u == UserByName(username)
    IN  IF u # NoUser /\ CheckPasswordHash(users[u].password, password)
        THEN u
        ELSE NoUser

\* The unique constraint on users.username: whether committing `table`
\* raises IntegrityError.
IntegrityError(table) ==
    \E u, v \in DOMAIN table : u # v /\ table[u].username = table[v].username

\* f with key k removed
Without(f, k) == [i \in DOMAIN f \ {k} |-> f[i]]

\* f with key k bound to v
With(f, k, v) == [i \in DOMAIN f \cup {k} |-> IF i = k THEN v ELSE f[i]]

\* Rows of a table that belong to user u are deleted with the user
\* (the foreign key's ondelete cascade).
CascadeDelete(table, u) ==
    [i \in {j \in DOMAIN table : table[j].user_id # u} |-> table[i]]

----------------------------------------------------------------------------
(* Requests and responses *)

\* `posted` is read by profile_update alone: whether the request submits the
\* form's fields (POST) or asks for the form (GET).
NoReq ==
    [id |-> 0, username |-> "", password |-> "", email |-> "",
     flag |-> FALSE, valid |-> FALSE, at |-> 0, posted |-> FALSE]

ReqId(id) == [NoReq EXCEPT !.id = id]

ReqLogin(username, password, valid) ==
    [NoReq EXCEPT !.username = username, !.password = password, !.valid = valid]

ReqUser(id, username, password, email, valid) ==
    [id |-> id, username |-> username, password |-> password, email |-> email,
     flag |-> FALSE, valid |-> valid, at |-> 0, posted |-> FALSE]

\* `at` is the clock's value when the handler reads it
ReqFlag(id, flag, at) == [NoReq EXCEPT !.id = id, !.flag = flag, !.at = at]

\* No user data in the response.
NoData == [id |-> NoUser, username |-> "", email |-> ""]

\* What a template shows of User u.
UserData(u) == [id |-> u, username |-> users[u].username, email |-> users[u].email]

Response(route, req, status, to, toId, flash, data, acts, items) ==
    [route |-> route, req |-> req, status |-> status, to |-> to, toId |-> toId,
     flash |-> flash, user |-> data, acts |-> acts, items |-> items]

\* render_template(to, ...)
Render(route, req, to, flash, data, acts, items) ==
    Response(route, req, 200, to, 0, flash, data, acts, items)

\* redirect(to), to being "/user/<id>..." when toId is an id
Redirect(route, req, to, toId, flash) ==
    Response(route, req, 302, to, toId, flash, NoData, <<>>, {})

\* get_or_404 found nothing
NotFound(route, req) ==
    Response(route, req, 404, "", 0, "", NoData, <<>>, {})

\* An exception left the handler: Flask answers 500.
ServerError(route, req) ==
    Response(route, req, 500, "", 0, "", NoData, <<>>, {})

\* flash("Access unauthorized.", "danger")
Unauthorized == "Access unauthorized."

----------------------------------------------------------------------------
(* The search: ActivitySearchCriteria, assignRandVariable, the upstream *)

\* the retry budget of get_searched_activity
maxRetry == 20

\* form.price.data, in thousandths
Prices == {125, 135, 306}

\* form.participants.data
ParticipantChoices == {"1", "2", "3"}

\* form.activityType.data[0]: the selected types joined by commas, as the
\* page's script posts them; a string is a sequence of tokens (type names
\* and the comma)
RawTypes ==
    {<<"education">>,
     <<"education", ",", "social">>,
     <<"social", ",", "social">>,
     <<"education", ",">>,
     <<>>}

\* str.split(","): the pieces between the commas, empty pieces kept
RECURSIVE Split(_)
Split(raw) ==
    IF \A i \in 1..Len(raw) : raw[i] # ","
    THEN <<raw>>
    ELSE LET i == CHOOSE i \in 1..Len(raw) :
                    raw[i] = "," /\ \A j \in 1..(i - 1) : raw[j] # ","
         IN  <<SubSeq(raw, 1, i - 1)>> \o Split(SubSeq(raw, i + 1, Len(raw)))

\* round(Decimal(price), 2) on thousandths, in hundredths: to nearest, ties
\* to the even digit
Round2(price) ==
    LET q == price \div 10
        r == price % 10
    IN  IF r > 5 \/ (r = 5 /\ q % 2 = 1) THEN q + 1 ELSE q

\* assignRandVariable without the test for the "3" sentinel: every
\* participants value is resampled
assignRandVariableAlways(price, participants, type) ==
    {[price |-> Round2(price), participants |-> n, type |-> type[i]] :
        n \in {"3", "4", "5", "8"}, i \in 1..Len(type)}

\* The values assignRandVariable may return: RandomProps with price,
\* participants and type set, one for every outcome of the random.choice calls.
assignRandVariable(price, participants, type) ==
    {[price |-> Round2(price), participants |-> n, type |-> type[i]] :
        n \in (IF participants = "3" THEN {"3", "4", "5", "8"} ELSE {participants}),
        i \in 1..Len(type)}

\* resp.json() of the external service: a body with an "error" field, or an
\* activity
Bodies ==
    {[error |-> TRUE, key |-> ""],
     [error |-> FALSE, key |-> "abc123"],
     [error |-> FALSE, key |-> "xyz789"]}

NoBody == [error |-> FALSE, key |-> ""]
NoQuery == [price |-> 0, participants |-> "", type |-> <<>>]
NoSearchForm == [price |-> 0, participants |-> "", activityType |-> <<>>]

\* What get_searched_activity answers
Returned(body) == [kind |-> "data", body |-> body]
NoMatchFound == [kind |-> "Tried but no data found", body |-> NoBody]
\* TransportFailure caught and turned into the no-match answer
TransportFailureSwallowed == [kind |-> "Tried but no data found", body |-> NoBody]

\* requests.get or resp.json() raised: the exception leaves the handler
TransportFailure == [kind |-> "exception", body |-> NoBody]
NoResult == [kind |-> "", body |-> NoBody]

----------------------------------------------------------------------------
(* Browsers signing up at the same time *)

Clients == 1..MaxClients

\* A browser that has sent nothing: no form, an empty session of its own
NoClient ==
    [pc |-> "idle", form |-> [username |-> "", password |-> "", email |-> ""],
     session |-> 0, status |-> 0, flash |-> ""]

----------------------------------------------------------------------------
(* Session helpers *)

\* add_user_to_g without the lookup: the id in the session taken as the user
g_userUnchecked == session

\* add_user_to_g (before_request): g.user, NoUser for None.  User.query.get
\* gives None for an id that is no longer in the table.
g_user ==
    IF session # NoUser
    THEN IF session \in DOMAIN users THEN session ELSE NoUser
    ELSE NoUser

\* do_login: the session after it
do_login(user) == user

\* do_logout deleting another key than CURR_USER_KEY
do_logoutOtherKey == session

\* do_logout: the session after it
do_logout == NoUser

----------------------------------------------------------------------------
(* Listings *)

Min(a, b) == IF a < b THEN a ELSE b

\* The value of the SQL expression (isCompleted == False) of a row, as the
\* store orders it: false sorts before true.
IncompleteKey(row) == IF row.isCompleted = FALSE THEN 1 ELSE 0

\* order_by(User_Activity.isCompleted == False, User_Activity.timestamp.asc()):
\* row a may stand before row b.
OrderedBefore(a, b) ==
    \/ IncompleteKey(a) < IncompleteKey(b)
    \/ IncompleteKey(a) = IncompleteKey(b) /\ a.timestamp <= b.timestamp

\* Every order the store may return the rows `ids` of User_Activity in:
\* sorted, ties in any order.
RECURSIVE Sorted(_)
Sorted(ids) ==
    IF ids = {} THEN {<<>>}
    ELSE UNION {
            {<<m>> \o rest : rest \in Sorted(ids \ {m})} :
            m \in {i \in ids : \A j \in ids : OrderedBefore(saved[i], saved[j])}}

\* .limit(n) of an ordered result
Limit(seq, n) == SubSeq(seq, 1, Min(Len(seq), n))

\* The subsets of S with k elements
RECURSIVE KSubsets(_, _)
KSubsets(S, k) ==
    IF k = 0 THEN {{}}
    ELSE IF k >= Cardinality(S) THEN {S}
    ELSE LET e == CHOOSE e \in S : TRUE
         IN  KSubsets(S \ {e}, k) \cup {T \cup {e} : T \in KSubsets(S \ {e}, k - 1)}

\* .limit(n) of an unordered result: any n of the rows
LimitAny(S, n) == KSubsets(S, Min(Cardinality(S), n))

\* saved_activity_page's query
SavedQuery(user_id) ==
    {Limit(seq, PageLimit) :
        seq \in Sorted({i \in DOMAIN saved : saved[i].user_id = user_id})}

\* completed_activity_page's query
CompletedQuery(user_id) ==
    LimitAny({i \in DOMAIN saved :
                saved[i].user_id = user_id /\ saved[i].isCompleted = TRUE}, PageLimit)

\* ignored_activity_page's query
IgnoredQuery(user_id) ==
    LimitAny({i \in DOMAIN ignored : ignored[i].user_id = user_id}, PageLimit)

----------------------------------------------------------------------------
(* The handlers *)

Init ==
    /\ users = <<>>
    /\ userSeq = 0
    /\ saved = <<>>
    /\ savedSeq = 0
    /\ ignored = <<>>
    /\ ignoredSeq = 0
    /\ session = NoUser
    /\ now = 0
    /\ resp = Response("", NoReq, 0, "", 0, "", NoData, <<>>, {})
    /\ spc = "idle"
    /\ sform = NoSearchForm
    /\ squery = NoQuery
    /\ sprices = {}
    /\ nqueries = 0
    /\ x = 0
    /\ sresponses = <<>>
    /\ sresult = NoResult
    /\ clients = [c \in Clients |-> NoClient]

\* SignupInsert as a merge: a row with the username is overwritten
SignupInsertMerge(username, password, email) ==
    IF UserByName(username) # NoUser
    THEN With(users, UserByName(username), UserSignup(username, password, email))
    ELSE With(users, userSeq + 1, UserSignup(username, password, email))

\* signup's try block: the table after db.session.add(user), before commit
SignupInsert(username, password, email) ==
    With(users, userSeq + 1, UserSignup(username, password, email))

signup(username, password, email, valid) ==
    LET req == ReqUser(0, username, password, email, valid)
        added == SignupInsert(username, password, email)
    IN  /\ IF valid
           THEN IF IntegrityError(added)
                THEN /\ resp' = Render("signup", req, "user/signup.html",
                                       "Username already taken", NoData, <<>>, {})
                     /\ UNCHANGED <<users, userSeq, session>>
                ELSE /\ userSeq < MaxUsers
                     /\ users' = added
                     /\ userSeq' = userSeq + 1
                     /\ session' = do_login(userSeq + 1)
                     /\ resp' = Redirect("signup", req, "/", 0, "")
           ELSE /\ resp' = Render("signup", req, "user/signup.html", "", NoData, <<>>, {})
                /\ UNCHANGED <<users, userSeq, session>>
        /\ UNCHANGED <<saved, savedSeq, ignored, ignoredSeq, now>>
        /\ UNCHANGED searchvars
        /\ UNCHANGED racevars

\* LoginResponse with a message of its own for an unknown username
LoginResponseNamesCause(req, user) ==
    IF user # NoUser
    THEN [Redirect("login", req, "/", 0, "Welcome")
            EXCEPT !.user.username = users[user].username]
    ELSE IF UserByName(req.username) = NoUser
    THEN Render("login", req, "user/login.html", "Unknown username.", NoData, <<>>, {})
    ELSE Render("login", req, "user/login.html", "Invalid credentials.", NoData, <<>>, {})

\* login's flash and response for a submitted form, given authenticate's result
LoginResponse(req, user) ==
    IF user # NoUser
    THEN [Redirect("login", req, "/", 0, "Welcome")
            EXCEPT !.user.username = users[user].username]
    ELSE Render("login", req, "user/login.html", "Invalid credentials.", NoData, <<>>, {})

login(username, password, valid) ==
    LET req == ReqLogin(username, password, valid)
        user == Authenticate(username, password)
    IN  /\ IF valid
           THEN /\ session' = IF user # NoUser THEN do_login(user) ELSE session
                /\ resp' = LoginResponse(req, user)
           ELSE /\ resp' = Render("login", req, "user/login.html", "", NoData, <<>>, {})
                /\ UNCHANGED session
        /\ UNCHANGED <<users, userSeq, saved, savedSeq, ignored, ignoredSeq, now>>
        /\ UNCHANGED searchvars
        /\ UNCHANGED racevars

logout ==
    /\ session' = do_logout
    /\ resp' = Redirect("logout", NoReq, "/login", 0,
                        "You've been logged out successfully.")
    /\ UNCHANGED <<users, userSeq, saved, savedSeq, ignored, ignoredSeq, now>>
    /\ UNCHANGED searchvars
    /\ UNCHANGED racevars

\* The tables and the session are left as they are.
ReadOnly ==
    /\ UNCHANGED <<users, userSeq, saved, savedSeq, ignored, ignoredSeq, session, now>>
    /\ UNCHANGED searchvars
    /\ UNCHANGED racevars

index(user_id) ==
    LET req == ReqId(user_id)
    IN  /\ resp' = IF user_id \notin DOMAIN users
                   THEN NotFound("index", req)
                   ELSE Render("index", req, "user/profile.html", "",
                               UserData(user_id), <<>>, {})
        /\ ReadOnly

\* The guard the three listings share: get_or_404, then g.user.id != user.id.
\* g.user.id raises AttributeError when g.user is None.
OwnerGate(route, req, user_id, to, toId) ==
    IF user_id \notin DOMAIN users THEN NotFound(route, req)
    ELSE IF g_user = NoUser THEN ServerError(route, req)
    ELSE Redirect(route, req, to, toId, Unauthorized)

\* g.user.id != user.id, for g.user not None
NotOwner(user_id) == g_user # user_id

saved_activity_page(user_id) ==
    LET req == ReqId(user_id)
    IN  /\ IF user_id \notin DOMAIN users \/ g_user = NoUser \/ NotOwner(user_id)
           THEN resp' = OwnerGate("saved_activity_page", req, user_id, "/user/", g_user)
           ELSE \E activities \in SavedQuery(user_id) :
                    resp' = Render("saved_activity_page", req, "activities/activity.html",
                                   "", UserData(user_id), activities, {})
        /\ ReadOnly

completed_activity_page(user_id) ==
    LET req == ReqId(user_id)
    IN  /\ IF user_id \notin DOMAIN users \/ g_user = NoUser \/ NotOwner(user_id)
           THEN resp' = OwnerGate("completed_activity_page", req, user_id, "/user/", g_user)
           ELSE \E completed \in CompletedQuery(user_id) :
                    resp' = Render("completed_activity_page", req,
                                   "activities/completed_activities.html",
                                   "", UserData(user_id), <<>>, completed)
        /\ ReadOnly

ignored_activity_page(user_id) ==
    LET req == ReqId(user_id)
    IN  /\ IF user_id \notin DOMAIN users \/ g_user = NoUser \/ NotOwner(user_id)
           THEN resp' = OwnerGate("ignored_activity_page", req, user_id, "/user/", g_user)
           ELSE \E activities \in IgnoredQuery(user_id) :
                    resp' = Render("ignored_activity_page", req,
                                   "activities/ignored_activities.html",
                                   "", UserData(user_id), <<>>, activities)
        /\ ReadOnly

new_activity(user_id) ==
    LET req == ReqId(user_id)
    IN  /\ resp' = IF user_id \notin DOMAIN users \/ g_user = NoUser \/ NotOwner(user_id)
                   THEN OwnerGate("new_activity", req, user_id, "/login", 0)
                   ELSE Render("new_activity", req, "activities/new_activity.html",
                               "", NoData, <<>>, {})
        /\ ReadOnly

\* RemoveDenied without the comparison of the owner
RemoveDeniedNever(id) == FALSE

\* activity.user_id != g.user.id, for the Ignored_Activity row `id`
RemoveDenied(id) == ignored[id].user_id # g_user

remove_activity(ignored_activities_id) ==
    LET req == ReqId(ignored_activities_id)
    IN  /\ IF g_user = NoUser
           THEN /\ resp' = Redirect("remove_activity", req, "/", 0, Unauthorized)
                /\ UNCHANGED ignored
           ELSE IF ignored_activities_id \notin DOMAIN ignored
           THEN /\ resp' = NotFound("remove_activity", req)
                /\ UNCHANGED ignored
           ELSE IF RemoveDenied(ignored_activities_id)
           THEN /\ resp' = Redirect("remove_activity", req, "/user/", g_user, Unauthorized)
                /\ UNCHANGED ignored
           ELSE /\ ignored' = Without(ignored, ignored_activities_id)
                /\ resp' = Redirect("remove_activity", req,
                                    "/user/ignored_activities", g_user, "")
        /\ UNCHANGED <<users, userSeq, saved, savedSeq, ignoredSeq, session, now>>
        /\ UNCHANGED searchvars
        /\ UNCHANGED racevars

\* The User_Activity row handle_saved_activity inserts: isCompleted and
\* timestamp take the column defaults (False, utcnow read at time `at`).
NewSaved(form, user_id, at) ==
    [form |-> form, user_id |-> user_id, isCompleted |-> FALSE, timestamp |-> at]

\* The clock may read `at`: it does not run backwards.
ClockReads(at) == at \in now..MaxTime

handle_saved_activity(form, at) ==
    /\ IF g_user = NoUser
       THEN /\ resp' = Redirect("handle_saved_activity", NoReq, "/", 0, Unauthorized)
            /\ UNCHANGED <<saved, savedSeq, now>>
       ELSE /\ savedSeq < MaxSaved
            /\ ClockReads(at)
            /\ now' = at
            /\ saved' = With(saved, savedSeq + 1, NewSaved(form, g_user, at))
            /\ savedSeq' = savedSeq + 1
            /\ resp' = Redirect("handle_saved_activity", ReqFlag(0, FALSE, at),
                                "/user/new_activity", g_user, "")
    /\ UNCHANGED <<users, userSeq, ignored, ignoredSeq, session>>
    /\ UNCHANGED searchvars
    /\ UNCHANGED racevars

\* The Ignored_Activity row handle_ignored_activity inserts
NewIgnored(form, user_id) ==
    [title |-> form.title, key |-> form.key, user_id |-> user_id]

handle_ignored_activity(form) ==
    /\ IF g_user = NoUser
       THEN /\ resp' = Redirect("handle_ignored_activity", NoReq, "/", 0, Unauthorized)
            /\ UNCHANGED <<ignored, ignoredSeq>>
       ELSE /\ ignoredSeq < MaxIgnored
            /\ ignored' = With(ignored, ignoredSeq + 1, NewIgnored(form, g_user))
            /\ ignoredSeq' = ignoredSeq + 1
            /\ resp' = Redirect("handle_ignored_activity", NoReq,
                                "/user/new_activity", g_user, "")
    /\ UNCHANGED <<users, userSeq, saved, savedSeq, session, now>>
    /\ UNCHANGED searchvars
    /\ UNCHANGED racevars

\* profile_update's writes: user.username and user.email from the form
ProfileWrite(user_id, username, email) ==
    [users EXCEPT ![user_id].username = username, ![user_id].email = email]

\* What UpdateUserForm(obj=user) shows: the fields of the request when it
\* submits them, the user's stored values when it does not (a GET).
FormShown(user_id, username, email, posted) ==
    IF posted
    THEN [UserData(user_id) EXCEPT !.username = username, !.email = email]
    ELSE UserData(user_id)

\* posted: the request is a POST with the form's fields; valid:
\* form.validate_on_submit(), which holds of posted requests only.
profile_update(user_id, username, password, email, valid, posted) ==
    LET req == [ReqUser(user_id, username, password, email, valid)
                    EXCEPT !.posted = posted]
    IN  /\ valid => posted
        /\ IF g_user = NoUser
           THEN /\ resp' = Redirect("profile_update", req, "/", 0, Unauthorized)
                /\ UNCHANGED users
           ELSE IF user_id \notin DOMAIN users
           THEN /\ resp' = NotFound("profile_update", req)
                /\ UNCHANGED users
           ELSE IF ~valid
           THEN /\ resp' = Render("profile_update", req, "/user/edit.html", "",
                                  FormShown(user_id, username, email, posted), <<>>, {})
                /\ UNCHANGED users
           ELSE IF Authenticate(users[user_id].username, password) = NoUser
           THEN /\ resp' = Render("profile_update", req, "/user/edit.html",
                                  "Password incorrect, try again",
                                  FormShown(user_id, username, email, posted), <<>>, {})
                /\ UNCHANGED users
           ELSE IF IntegrityError(ProfileWrite(user_id, username, email))
           THEN /\ resp' = ServerError("profile_update", req)
                /\ UNCHANGED users
           ELSE /\ users' = ProfileWrite(user_id, username, email)
                /\ resp' = Redirect("profile_update", req, "/user/", user_id, "")
        /\ UNCHANGED <<userSeq, saved, savedSeq, ignored, ignoredSeq, session, now>>
        /\ UNCHANGED searchvars
        /\ UNCHANGED racevars

\* delete_user's session.pop("username", None): the session after it.  The
\* key popped is "username", not CURR_USER_KEY.
PopUsername == session

delete_user ==
    /\ IF g_user = NoUser
       THEN /\ resp' = Redirect("delete_user", NoReq, "/", 0, Unauthorized)
            /\ UNCHANGED <<users, saved, ignored, session>>
       ELSE /\ session' = PopUsername
            /\ users' = Without(users, g_user)
            /\ saved' = CascadeDelete(saved, g_user)
            /\ ignored' = CascadeDelete(ignored, g_user)
            /\ resp' = Redirect("delete_user", NoReq, "/signup", 0, "")
    /\ UNCHANGED <<userSeq, savedSeq, ignoredSeq, now>>
    /\ UNCHANGED searchvars
    /\ UNCHANGED racevars

\* CompletedWrite with the ownership filter turned into a bulk update: every
\* row of the row's owner is written
CompletedWriteAllOfOwner(id, isCompleted, at) ==
    [i \in DOMAIN saved |->
        IF saved[i].user_id = saved[id].user_id
        THEN [saved[i] EXCEPT !.isCompleted = isCompleted, !.timestamp = at]
        ELSE saved[i]]

\* set_completed_activity's writes to the row
CompletedWrite(id, isCompleted, at) ==
    [saved EXCEPT ![id].isCompleted = isCompleted, ![id].timestamp = at]

\* `at` is what datetime.utcnow() returns in the handler.
set_completed_activity(id, isCompleted, at) ==
    /\ IF g_user = NoUser
       THEN /\ resp' = Redirect("set_completed_activity", ReqFlag(id, isCompleted, 0),
                                "/", 0, Unauthorized)
            /\ UNCHANGED <<saved, now>>
       ELSE IF id \notin DOMAIN saved
       THEN \* User_Activity.query.get(id) is None: the assignment raises
            /\ resp' = ServerError("set_completed_activity", ReqFlag(id, isCompleted, 0))
            /\ UNCHANGED <<saved, now>>
       ELSE /\ ClockReads(at)
            /\ now' = at
            /\ saved' = CompletedWrite(id, isCompleted, at)
            /\ resp' = Response("set_completed_activity", ReqFlag(id, isCompleted, at),
                                200, "Completed", 0, "", NoData, <<>>, {})
    /\ UNCHANGED <<users, userSeq, savedSeq, ignored, ignoredSeq, session>>
    /\ UNCHANGED searchvars
    /\ UNCHANGED racevars

----------------------------------------------------------------------------
(* get_searched_activity *)

\* HasError with the test inverted
HasErrorInverted(body) == ~body.error

\* `"error" in data`
HasError(body) == body.error

\* The handler up to its first upstream exchange: it samples the query, sends
\* it and reads the answer (transport = TRUE: requests.get or json() raised).
get_searched_activity(price, participants, raw, body, transport) ==
    LET typeValues == Split(raw)
    IN  /\ spc = "idle"
        /\ \E randomVariables \in assignRandVariable(price, participants, typeValues) :
            /\ sform' = [price |-> price, participants |-> participants,
                         activityType |-> raw]
            /\ squery' = randomVariables
            /\ sprices' = {randomVariables.price}
            /\ nqueries' = 1
            /\ x' = 0
            /\ IF transport
               THEN /\ sresponses' = <<>>
                    /\ sresult' = TransportFailure
                    /\ spc' = "done"
               ELSE /\ sresponses' = <<body>>
                    /\ IF HasError(body)
                       THEN /\ sresult' = NoResult
                            /\ spc' = "retry"
                       ELSE /\ sresult' = Returned(body)
                            /\ spc' = "done"
        /\ UNCHANGED webvars
        /\ UNCHANGED racevars

\* InRange of a loop without a budget
InRangeAlways(n) == TRUE

\* InRange with the loop bound off by one
InRangeInclusive(n) == n <= maxRetry

\* `for x in range(maxRetry)`: whether the loop runs iteration n
InRange(n) == n < maxRetry

\* One iteration of `for x in range(maxRetry)`: a fresh sample, one upstream
\* exchange, and the return after the last iteration.
RetryIteration(testdata, transport) ==
    /\ spc = "retry"
    /\ InRange(x)
    /\ \E tryRandomVariables \in
            assignRandVariable(sform.price, sform.participants, Split(sform.activityType)) :
        /\ squery' = tryRandomVariables
        /\ sprices' = sprices \cup {tryRandomVariables.price}
    /\ nqueries' = nqueries + 1
    /\ IF transport
       THEN /\ sresponses' = sresponses
            /\ sresult' = TransportFailure
            /\ spc' = "done"
            /\ x' = x
       ELSE /\ sresponses' = Append(sresponses, testdata)
            /\ IF ~HasError(testdata)
               THEN /\ sresult' = Returned(testdata)
                    /\ spc' = "done"
                    /\ x' = x
               ELSE /\ x' = x + 1
                    /\ IF InRange(x + 1)
                       THEN /\ sresult' = NoResult
                            /\ spc' = "retry"
                       ELSE /\ sresult' = NoMatchFound
                            /\ spc' = "done"
    /\ UNCHANGED sform
    /\ UNCHANGED webvars
    /\ UNCHANGED racevars

----------------------------------------------------------------------------
(* signup, step by step, for requests handled at the same time *)

\* signup of client c up to db.session.add(user): the form validated, the
\* User object built and pending in the request's own unit of work.  Nothing
\* of it is visible to other requests.
SignupAdd(c, username, password, email) ==
    /\ clients[c].pc = "idle"
    /\ clients' = [clients EXCEPT
                        ![c].pc = "added",
                        ![c].form = [username |-> username, password |-> password,
                                     email |-> email]]
    /\ UNCHANGED webvars
    /\ UNCHANGED searchvars

\* db.session.commit() of client c and the rest of the handler: the insert
\* is one atomic operation of the store, which checks the unique constraint;
\* IntegrityError re-presents the form, success logs the client in.
SignupCommit(c) ==
    LET f == clients[c].form
        added == SignupInsert(f.username, f.password, f.email)
    IN  /\ clients[c].pc = "added"
        /\ IF IntegrityError(added)
           THEN /\ clients' = [clients EXCEPT
                                    ![c].pc = "done",
                                    ![c].status = 200,
                                    ![c].flash = "Username already taken"]
                /\ UNCHANGED <<users, userSeq>>
           ELSE /\ userSeq < MaxUsers
                /\ users' = added
                /\ userSeq' = userSeq + 1
                /\ clients' = [clients EXCEPT
                                    ![c].pc = "done",
                                    ![c].status = 302,
                                    ![c].session = do_login(userSeq + 1)]
        /\ UNCHANGED <<saved, savedSeq, ignored, ignoredSeq, session, now, resp>>
        /\ UNCHANGED searchvars

----------------------------------------------------------------------------
(* Specifications *)

UserIds == 1..(MaxUsers + 1)
SavedIds == 1..(MaxSaved + 1)
IgnoredIds == 1..(MaxIgnored + 1)
Times == 0..MaxTime

\* The UserAddForm submissions tried
SignupForms ==
    {[username |-> "alice", password |-> "pwA", email |-> "a@x"],
     [username |-> "bob", password |-> "pwB", email |-> "b@x"],
     [username |-> "alice", password |-> "pwB", email |-> "b@x"]}

\* A GET, or a submission that fails validation: no field is read
BlankForm == [username |-> "", password |-> "", email |-> ""]

\* The LoginForm submissions tried (email is not a field of it)
LoginForms == {[username |-> u, password |-> p, email |-> ""] : u \in Usernames, p \in Passwords}

\* The UpdateUserForm submissions tried
UpdateForms ==
    {[username |-> u, password |-> p, email |-> e] :
        u \in Usernames, p \in Passwords, e \in Emails}

Signup ==
    \E valid \in BOOLEAN : \E f \in (IF valid THEN SignupForms ELSE {BlankForm}) :
        signup(f.username, f.password, f.email, valid)

Login ==
    \E valid \in BOOLEAN : \E f \in (IF valid THEN LoginForms ELSE {BlankForm}) :
        login(f.username, f.password, valid)

\* A GET, a POST that fails validation (blank fields among them), or a POST
\* that passes it
ProfileUpdate ==
    \E id \in UserIds, valid \in BOOLEAN, posted \in BOOLEAN :
        \E f \in (IF valid THEN UpdateForms
                  ELSE IF posted THEN UpdateForms \cup {BlankForm}
                  ELSE {BlankForm}) :
            profile_update(id, f.username, f.password, f.email, valid, posted)

\* The account handlers
NextAccounts ==
    \/ Signup
    \/ Login
    \/ logout
    \/ \E id \in UserIds : index(id)
    \/ ProfileUpdate
    \/ delete_user

\* The activity handlers
NextActivities ==
    \/ \E id \in UserIds : saved_activity_page(id)
    \/ \E id \in UserIds : completed_activity_page(id)
    \/ \E id \in UserIds : ignored_activity_page(id)
    \/ \E id \in UserIds : new_activity(id)
    \/ \E id \in IgnoredIds : remove_activity(id)
    \/ \E form \in ActivityForms, at \in Times : handle_saved_activity(form, at)
    \/ \E form \in ActivityForms : handle_ignored_activity(form)
    \/ \E id \in SavedIds, isCompleted \in BOOLEAN, at \in Times :
            set_completed_activity(id, isCompleted, at)

NextSearch ==
    \/ \E price \in Prices, participants \in ParticipantChoices, raw \in RawTypes,
          body \in Bodies, transport \in BOOLEAN :
            get_searched_activity(price, participants, raw, body, transport)
    \/ \E testdata \in Bodies, transport \in BOOLEAN : RetryIteration(testdata, transport)

Next == NextAccounts \/ NextActivities \/ NextSearch

\* The whole application
Spec == Init /\ [][Next]_vars

\* The account handlers alone, from the empty store
SpecAccounts == Init /\ [][NextAccounts]_vars

\* Two users have signed up (alice, then bob) and nobody is logged in.
InitActivities ==
    /\ users = (1 :> UserSignup("alice", "pwA", "a@x")) @@ (2 :> UserSignup("bob", "pwB", "b@x"))
    /\ userSeq = 2
    /\ saved = <<>>
    /\ savedSeq = 0
    /\ ignored = <<>>
    /\ ignoredSeq = 0
    /\ session = NoUser
    /\ now = 0
    /\ resp = Response("", NoReq, 0, "", 0, "", NoData, <<>>, {})
    /\ spc = "idle"
    /\ sform = NoSearchForm
    /\ squery = NoQuery
    /\ sprices = {}
    /\ nqueries = 0
    /\ x = 0
    /\ sresponses = <<>>
    /\ sresult = NoResult
    /\ clients = [c \in Clients |-> NoClient]

\* The activity handlers, with login and logout, once two users exist
SpecActivities == InitActivities /\ [][NextActivities \/ Login \/ logout]_vars

\* Saving, ignoring and removing, with login and logout
NextIgnored ==
    \/ Login
    \/ logout
    \/ \E id \in UserIds : ignored_activity_page(id)
    \/ \E id \in IgnoredIds : remove_activity(id)
    \/ \E form \in ActivityForms, at \in Times : handle_saved_activity(form, at)
    \/ \E form \in ActivityForms : handle_ignored_activity(form)

\* The handlers of the ignored list (and saving), once two users exist
SpecIgnored == InitActivities /\ [][NextIgnored]_vars

\* The User_Activity ids the requests of SpecCap name: around the page limit
CapIds == {PageLimit, PageLimit + 1, PageLimit + 2, PageLimit + 3}

\* alice has saved PageLimit + 1 activities and completed all but the last;
\* bob has saved one.  Nobody is logged in.
InitCap ==
    /\ users = (1 :> UserSignup("alice", "pwA", "a@x")) @@ (2 :> UserSignup("bob", "pwB", "b@x"))
    /\ userSeq = 2
    /\ saved = [i \in 1..(PageLimit + 2) |->
                    [form |-> CHOOSE f \in ActivityForms : TRUE,
                     user_id |-> IF i <= PageLimit + 1 THEN 1 ELSE 2,
                     isCompleted |-> i <= PageLimit,
                     timestamp |-> 0]]
    /\ savedSeq = PageLimit + 2
    /\ ignored = <<>>
    /\ ignoredSeq = 0
    /\ session = NoUser
    /\ now = 0
    /\ resp = Response("", NoReq, 0, "", 0, "", NoData, <<>>, {})
    /\ spc = "idle"
    /\ sform = NoSearchForm
    /\ squery = NoQuery
    /\ sprices = {}
    /\ nqueries = 0
    /\ x = 0
    /\ sresponses = <<>>
    /\ sresult = NoResult
    /\ clients = [c \in Clients |-> NoClient]

NextCap ==
    \/ Login
    \/ logout
    \/ \E id \in CapIds, isCompleted \in BOOLEAN, at \in Times :
            set_completed_activity(id, isCompleted, at)
    \/ \E id \in UserIds : completed_activity_page(id)

\* Completion toggles and the completed page, with a user at the page limit
SpecCap == InitCap /\ [][NextCap]_vars

\* The search handler and the external service
SpecSearch == Init /\ [][NextSearch]_vars

\* The logins tried in SpecGuarded: each user's own credentials
OwnLogins ==
    {[username |-> "alice", password |-> "pwA"], [username |-> "bob", password |-> "pwB"]}

\* The profile updates tried in SpecGuarded: alice's password with a new
\* email, and with bob's username
GuardedUpdates ==
    {[username |-> "alice", password |-> "pwA", email |-> "b@x"],
     [username |-> "bob", password |-> "pwA", email |-> "a@x"]}

\* The handlers that turn anonymous callers away before doing anything.
\* The clock stands still, and logged-in users save and ignore at most
\* MaxSaved activities in all.
NextGuarded ==
    \/ \E f \in OwnLogins : login(f.username, f.password, TRUE)
    \/ logout
    \/ \E id \in IgnoredIds : remove_activity(id)
    \/ \E form \in ActivityForms :
            /\ g_user = NoUser \/ savedSeq + ignoredSeq < MaxSaved
            /\ handle_saved_activity(form, 0)
    \/ \E form \in ActivityForms :
            /\ g_user = NoUser \/ savedSeq + ignoredSeq < MaxSaved
            /\ handle_ignored_activity(form)
    \/ \E id \in SavedIds, isCompleted \in BOOLEAN : set_completed_activity(id, isCompleted, 0)
    \/ \E id \in UserIds, f \in GuardedUpdates :
            profile_update(id, f.username, f.password, f.email, TRUE, TRUE)
    \/ delete_user

\* The writing handlers, with login and logout, once two users exist
SpecGuarded == InitActivities /\ [][NextGuarded]_vars

\* Signup requests of several browsers, their steps interleaved
NextRace ==
    \/ \E c \in Clients, f \in SignupForms :
            SignupAdd(c, f.username, f.password, f.email)
    \/ \E c \in Clients : SignupCommit(c)

\* Concurrent signups against the empty store
SpecRace == Init /\ [][NextRace]_vars

----------------------------------------------------------------------------
(* The search strategy: C1, C2, C7 *)

\* Every upstream query sent so far was answered, each answer with an error
\* indicator.
AllErrors ==
    /\ nqueries >= 1
    /\ Len(sresponses) = nqueries
    /\ \A i \in 1..Len(sresponses) : sresponses[i].error

\* C1: while every upstream response carries an error indicator, the search
\* has sent at most 21 queries, it has ended exactly when the 21st was
\* answered, it then ended with "Tried but no data found" (NoMatchFound),
\* and all its queries carried one and the same maxprice.
C1_AllErrorsEndInNoMatch ==
    AllErrors =>
        /\ nqueries <= 21
        /\ (spc = "done") <=> (nqueries = 21)
        /\ spc = "done" => sresult = [kind |-> "Tried but no data found", body |-> NoBody]
        /\ Cardinality(sprices) = 1

\* A search that got 21 error responses and ended with NoMatchFound.
C1_Witness ==
    /\ AllErrors
    /\ spc = "done"
    /\ nqueries = 21
    /\ sresult.kind = "Tried but no data found"

\* C2: when the first upstream response carries no error indicator, one
\* query was sent, the handler has returned, and what it returned is that
\* response.
C2_FirstSuccessReturned ==
    (Len(sresponses) >= 1 /\ ~sresponses[1].error) =>
        /\ nqueries = 1
        /\ Len(sresponses) = 1
        /\ spc = "done"
        /\ sresult = [kind |-> "data", body |-> sresponses[1]]

\* The first response was the activity xyz789 and the search returned it.
C2_Witness ==
    /\ spc = "done"
    /\ nqueries = 1
    /\ sresponses = <<[error |-> FALSE, key |-> "xyz789"]>>
    /\ sresult.body.key = "xyz789"

\* t is one of the pieces of the submitted activityType string between its
\* commas: one of the candidate types the user selected.
IsCandidateType(raw, t) ==
    \E i \in 1..(Len(raw) + 1), j \in 0..Len(raw) :
        /\ j >= i - 1
        /\ t = SubSeq(raw, i, j)
        /\ \A k \in i..j : raw[k] # ","
        /\ i = 1 \/ raw[i - 1] = ","
        /\ j = Len(raw) \/ raw[j + 1] = ","

\* C7: the last upstream query built (the initial one or a retry) has a
\* participants value in {3,4,5,8} when the form's participants is "3" and
\* the form's participants value otherwise, and its type is one of the
\* user's selected candidate types.
C7_QueryParameters ==
    nqueries >= 1 =>
        /\ sform.participants = "3" => squery.participants \in {"3", "4", "5", "8"}
        /\ sform.participants # "3" => squery.participants = sform.participants
        /\ IsCandidateType(sform.activityType, squery.type)

\* A retry whose query resampled "3" to "8" and picked the second type.
C7_Witness ==
    /\ nqueries > 1
    /\ sform.participants = "3"
    /\ sform.activityType = <<"education", ",", "social">>
    /\ squery.participants = "8"
    /\ squery.type = <<"social">>

----------------------------------------------------------------------------
(* Accounts and the session: C3, C4, C5, C10 *)

\* The tables a request may write
tables == <<users, saved, ignored>>

\* The last request was made by a logged-in user A on a user-scoped resource
\* of another user B: B's user id on the routes that take one, an
\* Ignored_Activity or User_Activity row of B on the two that take a row id.
ForeignRequest ==
    /\ g_user # NoUser
    /\ \/ /\ resp.route \in {"index", "saved_activity_page", "completed_activity_page",
                             "ignored_activity_page", "new_activity", "profile_update"}
          /\ resp.req.id \in DOMAIN users
          /\ resp.req.id # g_user
       \/ /\ resp.route = "remove_activity"
          /\ resp.req.id \in DOMAIN ignored
          /\ ignored[resp.req.id].user_id # g_user
       \/ /\ resp.route = "set_completed_activity"
          /\ resp.req.id \in DOMAIN saved
          /\ saved[resp.req.id].user_id # g_user

\* C3: an owner-scoped request by A on a resource of another user B is
\* answered with "Access unauthorized." and a redirect, and carries none of
\* B's data.
C3_ForeignRequestsUnauthorized ==
    ForeignRequest =>
        /\ resp.flash = "Access unauthorized."
        /\ resp.status = 302
        /\ resp.user = NoData
        /\ resp.acts = <<>>
        /\ resp.items = {}

\* C4: a submitted signup whose username an existing user holds is answered
\* with "Username already taken" on the signup form; it creates no user,
\* changes no user's row and leaves the session as it was.
C4_SecondSignupRejected ==
    [][(/\ resp'.route = "signup"
        /\ resp'.req.valid
        /\ \E u \in DOMAIN users : users[u].username = resp'.req.username)
       => /\ resp'.flash = "Username already taken"
          /\ resp'.status = 200
          /\ resp'.to = "user/signup.html"
          /\ users' = users
          /\ userSeq' = userSeq
          /\ session' = session]_vars

\* alice signed up, logged out, and a second signup as alice was refused: one
\* user exists, with the first signup's email and password, and nobody is
\* logged in.
C4_Witness ==
    /\ resp.route = "signup"
    /\ resp.flash = "Username already taken"
    /\ resp.req = [id |-> 0, username |-> "alice", password |-> "pwB", email |-> "b@x",
                   flag |-> FALSE, valid |-> TRUE, at |-> 0, posted |-> FALSE]
    /\ DOMAIN users = {1}
    /\ users[1] = [username |-> "alice", email |-> "a@x", password |-> <<"bcrypt", "pwA">>]
    /\ session = NoUser

\* The user whose username and password a submitted login form matches
Matches(req) ==
    {u \in DOMAIN users :
        users[u].username = req.username /\ users[u].password = <<"bcrypt", req.password>>}

\* C5: a submitted login binds the session to user u exactly when u has the
\* submitted username and the submitted password matches u's hash;
\* otherwise the session is left as it was and the response is the login
\* form with "Invalid credentials.", the same whether the username is
\* unknown or the password is wrong.
C5_LoginBindsIffAuthenticated ==
    [][(resp'.route = "login" /\ resp'.req.valid)
       => IF Matches(resp'.req) # {}
          THEN /\ session' \in Matches(resp'.req)
               /\ resp'.status = 302
          ELSE /\ session' = session
               /\ [resp' EXCEPT !.req = NoReq] =
                    [route |-> "login", req |-> NoReq, status |-> 200,
                     to |-> "user/login.html", toId |-> 0,
                     flash |-> "Invalid credentials.", user |-> NoData,
                     acts |-> <<>>, items |-> {}]]_vars

\* bob is logged in and a login with a username nobody holds was refused:
\* the session is still bob's.
C5_Witness ==
    /\ resp.route = "login"
    /\ resp.req.valid
    /\ resp.flash = "Invalid credentials."
    /\ \A u \in DOMAIN users : users[u].username # resp.req.username
    /\ session \in DOMAIN users
    /\ users[session].username = "bob"

\* C10: a logout leaves the session without a binding, whether or not it had
\* one, answers with the redirect to /login, and changes no table; a logout
\* right after a logout changes nothing at all.
C10_LogoutIdempotent ==
    [][/\ resp'.route = "logout"
          => /\ session' = NoUser
             /\ resp'.status = 302
             /\ resp'.to = "/login"
             /\ tables' = tables
       /\ resp.route = "logout" => resp'.route # "logout"]_vars

\* A logout was answered: the session has no binding, and the users and
\* the rows they saved and ignored are still there.
C10_Witness ==
    /\ resp.route = "logout"
    /\ resp.status = 302
    /\ session = NoUser
    /\ DOMAIN users = {1, 2}
    /\ DOMAIN saved = {1, 2}
    /\ DOMAIN ignored = {1, 2}

----------------------------------------------------------------------------
(* Activity records: C6, C8 *)

\* C6: a remove request by a logged-in user on an existing Ignored_Activity
\* row deletes that row and no other when the user owns it; when another
\* user owns it, the answer is "Access unauthorized." and no row of any
\* table changes.
C6_RemoveIgnoredOwnerOnly ==
    [][(/\ resp'.route = "remove_activity"
        /\ g_user # NoUser
        /\ resp'.req.id \in DOMAIN ignored)
       => IF ignored[resp'.req.id].user_id = g_user
          THEN /\ DOMAIN ignored' = DOMAIN ignored \ {resp'.req.id}
               /\ \A i \in DOMAIN ignored' : ignored'[i] = ignored[i]
               /\ saved' = saved
               /\ users' = users
               /\ resp'.flash = ""
          ELSE /\ resp'.flash = "Access unauthorized."
               /\ resp'.status = 302
               /\ tables' = tables]_vars

\* Two rows were ignored; the owner removed one of them (one row is left),
\* and a remove of the other by a user who does not own it was refused.
\* Saved rows exist as well.
C6_Witness ==
    /\ resp.route = "remove_activity"
    /\ resp.flash = "Access unauthorized."
    /\ g_user # NoUser
    /\ ignoredSeq = 2
    /\ DOMAIN ignored = {resp.req.id}
    /\ ignored[resp.req.id].user_id # g_user
    /\ DOMAIN saved = {1, 2}

\* The last response is the saved-activities page.
SavedPageShown ==
    /\ resp.route = "saved_activity_page"
    /\ resp.status = 200
    /\ resp.to = "activities/activity.html"

\* C8: on the saved-activities page every incomplete activity stands before
\* every completed one, and among activities of the same completion status
\* timestamps do not decrease.
C8_SavedIncompleteFirst ==
    SavedPageShown =>
        \A i, j \in 1..Len(resp.acts) :
            i < j =>
                /\ ~(saved[resp.acts[i]].isCompleted /\ ~saved[resp.acts[j]].isCompleted)
                /\ saved[resp.acts[i]].isCompleted = saved[resp.acts[j]].isCompleted
                    => saved[resp.acts[i]].timestamp <= saved[resp.acts[j]].timestamp

----------------------------------------------------------------------------
(* Completion: C9 *)

\* A set_completed request by a logged-in user on an existing User_Activity
\* row, whoever owns it, is answered "Completed"; it sets the row's
\* isCompleted to the submitted value and its timestamp to the time of the
\* request (no earlier than any time read before), and changes nothing else
\* in any table nor the session.
SetCompletedEffect ==
    (/\ resp'.route = "set_completed_activity"
     /\ g_user # NoUser
     /\ resp'.req.id \in DOMAIN saved)
    => /\ resp'.status = 200
       /\ resp'.to = "Completed"
       /\ DOMAIN saved' = DOMAIN saved
       /\ saved'[resp'.req.id].isCompleted = resp'.req.flag
       /\ saved'[resp'.req.id].timestamp = resp'.req.at
       /\ resp'.req.at >= now
       /\ now' = resp'.req.at
       /\ saved'[resp'.req.id].user_id = saved[resp'.req.id].user_id
       /\ saved'[resp'.req.id].form = saved[resp'.req.id].form
       /\ \A o \in DOMAIN saved \ {resp'.req.id} : saved'[o] = saved[o]
       /\ users' = users
       /\ ignored' = ignored
       /\ session' = session

\* The last response is the completed-activities page.
CompletedPageShown ==
    /\ resp.route = "completed_activity_page"
    /\ resp.status = 200
    /\ resp.to = "activities/completed_activities.html"

\* The completed rows of the user the last request named
CompletedOf(user_id) ==
    {i \in DOMAIN saved : saved[i].user_id = user_id /\ saved[i].isCompleted}

\* The completed page lists exactly its user's completed rows.
CompletedPageListsAll ==
    CompletedPageShown => resp.items = CompletedOf(resp.req.id)

\* The completed page lists only its user's completed rows, and all of them
\* when there are at most 30.
CompletedPageListsUpToLimit ==
    CompletedPageShown =>
        /\ resp.items \subseteq CompletedOf(resp.req.id)
        /\ Cardinality(CompletedOf(resp.req.id)) <= 30
            => resp.items = CompletedOf(resp.req.id)

\* C9 as claimed: set_completed writes the one row (isCompleted and
\* timestamp) without an ownership check and nothing else, and the owner's
\* completed list shows a row exactly when it is completed.
C9_SetCompletedAndListed ==
    [][SetCompletedEffect]_vars /\ []CompletedPageListsAll

\* C9 as amended: the same, the completed list showing every completed row
\* only while the owner has at most 30 of them.
C9_SetCompletedAndListedUpToLimit ==
    [][SetCompletedEffect]_vars /\ []CompletedPageListsUpToLimit

\* bob has marked alice's 31st activity completed at tick 1, and no row of
\* bob's is completed.
C9_Witness ==
    /\ resp.route = "set_completed_activity"
    /\ resp.to = "Completed"
    /\ resp.req.flag
    /\ g_user = 2
    /\ saved[resp.req.id].user_id = 1
    /\ saved[resp.req.id].isCompleted
    /\ saved[resp.req.id].timestamp = 1
    /\ CompletedOf(2) = {}

----------------------------------------------------------------------------
(* Identity resolution: C11 *)

\* The session holds the id of a user that is no longer in the table.
DanglingSession == session # NoUser /\ session \notin DOMAIN users

\* C11: add_user_to_g resolves a session without a binding, and a session
\* bound to an id no User has, to the anonymous identity, and a session bound
\* to an existing user to that user; a request made with a dangling binding
\* is handled as an anonymous one (profile_update answers with the
\* "Access unauthorized." redirect, not with an error).
C11_IdentityResolution ==
    /\ session = NoUser => g_user = NoUser
    /\ DanglingSession => g_user = NoUser
    /\ session \in DOMAIN users => g_user = session
    /\ (DanglingSession /\ resp.route = "profile_update")
        => /\ resp.status = 302
           /\ resp.to = "/"
           /\ resp.flash = "Access unauthorized."

\* A user deleted the account, the session still names the deleted id while
\* another user exists, and a profile_update made with that session was
\* answered as an anonymous one.
C11_Witness ==
    /\ DanglingSession
    /\ DOMAIN users # {}
    /\ resp.route = "profile_update"
    /\ resp.req.id \in DOMAIN users
    /\ resp.flash = "Access unauthorized."

----------------------------------------------------------------------------
(* The search's failures and budget: C12, C13 *)

\* The last upstream query sent got no parsed answer: the service was
\* unreachable or its body was not JSON.
TransportFailed == Len(sresponses) < nqueries

\* C12: an upstream exchange that fails in transport, be it the initial
\* query or a retry, ends the search at that attempt with an exception
\* leaving the handler: an outcome that is neither a returned activity nor
\* "Tried but no data found"; after it no further query is sent.
C12_TransportFailureAborts ==
    [][/\ TransportFailed' =>
            /\ nqueries' = nqueries + 1
            /\ spc' = "done"
            /\ sresult' = [kind |-> "exception", body |-> NoBody]
            /\ sresult'.kind \notin {"data", "Tried but no data found"}
            /\ sresponses' = sresponses
       /\ TransportFailed => nqueries' = nqueries]_vars

\* Three queries were answered with an error indicator, the fourth failed in
\* transport, and the search ended there with the exception.
C12_Witness ==
    /\ nqueries = 4
    /\ Len(sresponses) = 3
    /\ \A i \in 1..3 : sresponses[i].error
    /\ spc = "done"
    /\ sresult.kind = "exception"

\* C13: a search sends at most 21 upstream queries; every query but the
\* last sent was answered with an error indicator (a retry follows only
\* such an answer); and when the answer to query k is the first without an
\* error indicator, k queries were sent in all, the handler has returned and
\* what it returned is that answer, also for k = 21.
C13_BoundedRetry ==
    /\ nqueries <= 21
    /\ Len(sresponses) <= nqueries
    /\ nqueries >= 1 => Len(sresponses) >= nqueries - 1
    /\ \A i \in 1..Len(sresponses) : i < nqueries => sresponses[i].error
    /\ \A k \in 1..Len(sresponses) :
            ~sresponses[k].error =>
                /\ nqueries = k
                /\ Len(sresponses) = k
                /\ spc = "done"
                /\ sresult = [kind |-> "data", body |-> sresponses[k]]

\* Twenty queries were answered with an error indicator and the 21st with the
\* activity abc123, which the search returned.
C13_Witness ==
    /\ nqueries = 21
    /\ Len(sresponses) = 21
    /\ \A i \in 1..20 : sresponses[i].error
    /\ ~sresponses[21].error
    /\ spc = "done"
    /\ sresult = [kind |-> "data", body |-> [error |-> FALSE, key |-> "abc123"]]

----------------------------------------------------------------------------
(* Outcomes of refused and misdirected requests: C14, C15, C17, C18 *)

\* The owner-scoped pages: the three lists and the new-activity page
OwnerPages ==
    {"saved_activity_page", "completed_activity_page", "ignored_activity_page",
     "new_activity"}

\* C14: a request for an owner-scoped page of an existing user by someone
\* who is not that user is answered with a redirect: to a landing page ("/"
\* or "/login") when the request is anonymous, to the acting user's own
\* resource ("/user/<own id>...") when it comes from another logged-in user.
\* It is never an unhandled error.
C14_UnauthorizedIsRedirect ==
    (/\ resp.route \in OwnerPages
     /\ resp.req.id \in DOMAIN users
     /\ g_user # resp.req.id)
    => /\ resp.status = 302
       /\ g_user = NoUser => resp.to \in {"/", "/login"}
       /\ g_user # NoUser => resp.toId = g_user

\* A submitted form asks the store to write a username that another user
\* holds: a signup, or a profile_update by a logged-in user on an existing
\* user whose current password the form carries.
UsernameViolation(req, route) ==
    /\ req.valid
    /\ \E u \in DOMAIN users : u # req.id /\ users[u].username = req.username
    /\ \/ route = "signup"
       \/ /\ route = "profile_update"
          /\ g_user # NoUser
          /\ req.id \in DOMAIN users
          /\ users[req.id].password = <<"bcrypt", req.password>>

\* C15: every write of a username that another user holds, by signup or by
\* profile_update, is answered with "Username already taken" on the form
\* (never with an unhandled storage error) and leaves the users as they
\* were.
C15_UsernameTakenEverywhere ==
    [][UsernameViolation(resp'.req, resp'.route)
       => /\ resp'.status = 200
          /\ resp'.flash = "Username already taken"
          /\ users' = users]_vars

----------------------------------------------------------------------------
(* Concurrent signups: C16 *)

\* The clients whose signup request carries username n
Requesting(n) == {c \in Clients : clients[c].pc # "idle" /\ clients[c].form.username = n}

\* Those of them whose request created the user
Created(n) == {c \in Requesting(n) : clients[c].pc = "done" /\ clients[c].status = 302}

\* Those of them whose request ended with "Username already taken"
Taken(n) ==
    {c \in Requesting(n) :
        /\ clients[c].pc = "done"
        /\ clients[c].status = 200
        /\ clients[c].flash = "Username already taken"}

\* C16: however the steps of concurrent signup requests interleave, no two
\* users share a username; of the requests for one username at most one
\* creates the user, and its client is logged in as the user it created;
\* every request that ends with "Username already taken" leaves its client
\* logged out; and once all requests for the username have ended, exactly
\* one has created the user and every other has ended with "Username
\* already taken".
C16_ConcurrentSignups ==
    /\ \A u, v \in DOMAIN users : u # v => users[u].username # users[v].username
    /\ \A n \in {"alice", "bob"} :
        /\ Cardinality(Created(n)) <= 1
        /\ \A c \in Created(n) :
                /\ clients[c].session \in DOMAIN users
                /\ users[clients[c].session].username = n
                /\ users[clients[c].session].email = clients[c].form.email
                /\ users[clients[c].session].password = <<"bcrypt", clients[c].form.password>>
        /\ \A c \in Taken(n) : clients[c].session = 0
        /\ (Requesting(n) # {} /\ \A c \in Requesting(n) : clients[c].pc = "done")
            => /\ Cardinality(Created(n)) = 1
               /\ Taken(n) = Requesting(n) \ Created(n)

\* Three browsers signed up as alice at the same time, the second one's
\* insert came first: it is logged in as user 1, the two others were told
\* the username is taken.
C16_Witness ==
    /\ \A c \in 1..3 : clients[c].pc = "done" /\ clients[c].form.username = "alice"
    /\ Created("alice") = {2}
    /\ Taken("alice") = {1, 3}
    /\ clients[2].session = 1
    /\ DOMAIN users = {1}

----------------------------------------------------------------------------
(* Requests on ids that do not exist: C17, C18 *)

\* The request names an id no record has: a user id on the profile, list,
\* new-activity and profile-update routes, an Ignored_Activity id on remove,
\* a User_Activity id on set_completed.  On the routes that first turn
\* away anonymous callers the caller is logged in.
NonexistentTarget(req, route) ==
    \/ /\ route \in {"index"} \cup OwnerPages
       /\ req.id \notin DOMAIN users
    \/ /\ route = "profile_update"
       /\ g_user # NoUser
       /\ req.id \notin DOMAIN users
    \/ /\ route = "remove_activity"
       /\ g_user # NoUser
       /\ req.id \notin DOMAIN ignored
    \/ /\ route = "set_completed_activity"
       /\ g_user # NoUser
       /\ req.id \notin DOMAIN saved

\* C17: a request on an id that does not exist is answered with the
\* not-found response (404) and changes no record of any table.
C17_MissingIdIsNotFound ==
    [][NonexistentTarget(resp'.req, resp'.route)
       => /\ resp'.status = 404
          /\ tables' = tables]_vars

\* What the caller sees of a response: all of it but the echo of the request
Outcome(r) == [r EXCEPT !.req = NoReq]

\* The response turns the caller away
Refused(r) == r.status = 404 \/ r.flash = "Access unauthorized."

\* The request is owner-scoped and names an id the acting user does not own:
\* another user's id or an id no user has on the owner-scoped pages,
\* another user's Ignored_Activity row or an id no row has on remove.
NotOwnTarget(req, route) ==
    \/ /\ route \in OwnerPages
       /\ req.id # g_user
    \/ /\ route = "remove_activity"
       /\ \/ req.id \notin DOMAIN ignored
          \/ ignored[req.id].user_id # g_user

\* C18: when a logged-in user makes two requests in a row on the same
\* owner-scoped route, both on ids the user does not own and the first
\* refused (so that nothing changed in between), the user gets the same
\* response to both, whether the ids belong to another user or to nobody.
C18_ExistenceNotLeaked ==
    [][(/\ g_user # NoUser
        /\ resp'.route = resp.route
        /\ NotOwnTarget(resp.req, resp.route)
        /\ NotOwnTarget(resp'.req, resp'.route)
        /\ Refused(resp))
       => Outcome(resp') = Outcome(resp)]_vars

----------------------------------------------------------------------------
(* The session and the store: C19, C20 *)

\* C19: a session that holds a binding holds the id of a user that exists;
\* after a delete_user that deleted the account, the session holds no
\* binding.
C19_NoDanglingSession ==
    /\ session # NoUser => session \in DOMAIN users
    /\ (resp.route = "delete_user" /\ resp.to = "/signup") => session = NoUser

\* The routes that write to a table
GuardedRoutes ==
    {"handle_saved_activity", "handle_ignored_activity", "remove_activity",
     "set_completed_activity", "profile_update", "delete_user"}

\* The session resolves to no identity: it has no binding, or a binding to
\* an id no user has.
Anonymous == session \notin DOMAIN users

\* C20: a save, ignore, remove, set_completed, profile_update or delete_user
\* request made while the session resolves to no identity is answered with
\* the "Access unauthorized." redirect to "/" and changes no record of any
\* table nor the session; and every User_Activity or Ignored_Activity row
\* that a request creates is created by a save (an ignore) of a logged-in
\* user and has that user's id as its user_id.
C20_AnonymousMutatesNothing ==
    [][/\ (Anonymous /\ resp'.route \in GuardedRoutes)
            => /\ resp'.status = 302
               /\ resp'.to = "/"
               /\ resp'.flash = "Access unauthorized."
               /\ tables' = tables
               /\ session' = session
       /\ \A i \in DOMAIN saved' \ DOMAIN saved :
            /\ resp'.route = "handle_saved_activity"
            /\ session \in DOMAIN users
            /\ saved'[i].user_id = session
       /\ \A i \in DOMAIN ignored' \ DOMAIN ignored :
            /\ resp'.route = "handle_ignored_activity"
            /\ session \in DOMAIN users
            /\ ignored'[i].user_id = session]_vars

\* bob saved one activity and ignored one, alice deleted her account, and a
\* save made with her session, still bound to her id, was turned away:
\* bob's rows are the only ones.
C20_Witness ==
    /\ resp.route = "handle_saved_activity"
    /\ resp.flash = "Access unauthorized."
    /\ resp.to = "/"
    /\ session = 1
    /\ DOMAIN users = {2}
    /\ DOMAIN saved = {1} /\ saved[1].user_id = 2
    /\ DOMAIN ignored = {1} /\ ignored[1].user_id = 2

====
